---- MODULE Spec2Model ----
(***************************************************************************)
(* Model of the ticket scanner backend (src/main.py): the attendee store,  *)
(* the optional Google Sheet mirror, and the get_attendee and              *)
(* mark_attendance endpoints.  A mark_attendance request is a sequence of  *)
(* steps, one per remote call (find_one, the sheet read, the sheet cell    *)
(* update, update_one), so that concurrent requests interleave between     *)
(* their calls exactly as the server threads of the program do.            *)
(***************************************************************************)
EXTENDS Integers, Sequences, FiniteSets, TLC

VARIABLES
    store,                  \* collection: attendee_id -> document
    sheet,                  \* the spreadsheet tab: sequence of rows of cells
    sheetsConfigured,       \* sheets_service and SHEETS_SPREADSHEET_ID are set
    UPDATE_SHEETS_ON_MARK,  \* main.py:43
    clock,                  \* source of datetime.utcnow()
    req,                    \* worker -> the mark_attendance request it runs
    getResp,                \* response of the last get_attendee call
    nreq                    \* requests begun so far

vars == <<store, sheet, sheetsConfigured, UPDATE_SHEETS_ON_MARK, clock, req,
          getResp, nreq>>

\* ------------------------------------------------------------- bounds
MaxRequests == 2

\* columns of a drawn sheet, data rows of a drawn sheet
MaxCols == 2
MaxRows == 2

\* ------------------------------------------------------------- constants
Workers == {"w1", "w2"}

SCANNER_ID == "scanner1"
SCANNER_PASSWORD == "password123"

\* identifiers that have a document in the collection, and all identifiers
\* a request may carry
StoredIds == {"a1", "a2"}
AttendeeIds == StoredIds \cup {"zz"}

ScannerIds == {SCANNER_ID, "Scanner1"}
ScannerPasswords == {SCANNER_PASSWORD, "bad"}

\* req.meta: None, the empty dict, two non-empty dicts
NoMeta == "None"
EmptyMeta == "{}"
Metas == {NoMeta, EmptyMeta, "m1"}
\* a second non-empty meta, for requests that overwrite one another's meta
MoreMetas == Metas \cup {"m2"}

\* doc.get('attendance_ts', 'N/A'): a document without a timestamp
NoTs == 0

Letters == <<"A", "B", "C", "D", "E", "F", "G", "H", "I", "J", "K", "L", "M",
             "N", "O", "P", "Q", "R", "S", "T", "U", "V", "W", "X", "Y", "Z">>

\* ------------------------------------------------------------- the store
NewDoc(name) ==
    [name |-> name, attendance_status |-> "NotAttended",
     attendance_ts |-> NoTs, attendance_meta |-> NoMeta]

InitStore == [a \in StoredIds |-> NewDoc(IF a = "a1" THEN "Ann" ELSE "Bob")]

\* collection.find_one({"attendee_id": attendee_id})
HasDoc(st, attendee_id) == attendee_id \in DOMAIN st

\* the existence check left out
DocMissing_never(found) == FALSE

\* if not doc: the document was not found
DocMissing(found) == ~found

\* the barrier left out: a second mark is accepted
AlreadyMarked_lenient(doc) == FALSE

\* the barrier of mark_attendance
AlreadyMarked(doc) == doc.attendance_status = "Attended"

\* the test "is not None" for the truth test of req.meta
MetaSupplied_notnone(meta) == meta # NoMeta

\* if req.meta: -- None and the empty dict are both falsy
MetaSupplied(meta) == meta # NoMeta /\ meta # EmptyMeta

\* the update document without its timestamp
BuildUpdate_nots(now, meta) ==
    IF MetaSupplied(meta)
    THEN [attendance_status |-> "Attended", attendance_meta |-> meta]
    ELSE [attendance_status |-> "Attended"]

\* the update document without its status
BuildUpdate_nostatus(now, meta) ==
    IF MetaSupplied(meta)
    THEN [attendance_ts |-> now, attendance_meta |-> meta]
    ELSE [attendance_ts |-> now]

\* the update document built by mark_attendance
BuildUpdate(now, meta) ==
    IF MetaSupplied(meta)
    THEN [attendance_status |-> "Attended", attendance_ts |-> now,
          attendance_meta |-> meta]
    ELSE [attendance_status |-> "Attended", attendance_ts |-> now]

\* {"$set": update} on one document
ApplySet(doc, update) ==
    [f \in DOMAIN doc |-> IF f \in DOMAIN update THEN update[f] ELSE doc[f]]

\* an update that toggles the status of a marked document
UpdateOne_toggle(st, attendee_id, update) ==
    IF attendee_id \in DOMAIN st
    THEN [st EXCEPT ![attendee_id] =
            IF @.attendance_status = "Attended"
            THEN [@ EXCEPT !.attendance_status = "NotAttended"]
            ELSE ApplySet(@, update)]
    ELSE st

\* collection.update_one({"attendee_id": attendee_id}, {"$set": update})
UpdateOne(st, attendee_id, update) ==
    IF HasDoc(st, attendee_id)
    THEN [st EXCEPT ![attendee_id] = ApplySet(@, update)]
    ELSE st

\* ------------------------------------------------------------- the sheet
\* row_index = -1, and the model's value for header.index() raising ValueError
NotFound == -1

\* header.index(name), 0-based; NotFound where Python raises ValueError
HeaderIndex(header, name) ==
    IF \E i \in 1..Len(header) : header[i] = name
    THEN (CHOOSE i \in 1..Len(header) :
              /\ header[i] = name
              /\ \A j \in 1..(i - 1) : header[j] # name) - 1
    ELSE NotFound

\* len(row) > id_col_index and row[id_col_index] == attendee_id
RowMatches(row, id_col_index, attendee_id) ==
    /\ Len(row) > id_col_index
    /\ row[id_col_index + 1] = attendee_id

\* the loop with row_index starting at the first data row instead of -1
FindRowIndex_fallback(data_rows, id_col_index, attendee_id) ==
    IF \E k \in 1..Len(data_rows) :
           RowMatches(data_rows[k], id_col_index, attendee_id)
    THEN (CHOOSE k \in 1..Len(data_rows) :
              /\ RowMatches(data_rows[k], id_col_index, attendee_id)
              /\ \A j \in 1..(k - 1) :
                     ~RowMatches(data_rows[j], id_col_index, attendee_id)) + 1
    ELSE 2

\* the loop counting rows without the header row: idx + 1
FindRowIndex_offbyone(data_rows, id_col_index, attendee_id) ==
    IF \E k \in 1..Len(data_rows) :
           RowMatches(data_rows[k], id_col_index, attendee_id)
    THEN CHOOSE k \in 1..Len(data_rows) :
              /\ RowMatches(data_rows[k], id_col_index, attendee_id)
              /\ \A j \in 1..(k - 1) :
                     ~RowMatches(data_rows[j], id_col_index, attendee_id)
    ELSE NotFound

\* the for loop over enumerate(data_rows): idx + 2 of the first matching row
FindRowIndex(data_rows, id_col_index, attendee_id) ==
    IF \E k \in 1..Len(data_rows) :
           RowMatches(data_rows[k], id_col_index, attendee_id)
    THEN (CHOOSE k \in 1..Len(data_rows) :
              /\ RowMatches(data_rows[k], id_col_index, attendee_id)
              /\ \A j \in 1..(k - 1) :
                     ~RowMatches(data_rows[j], id_col_index, attendee_id)) + 1
    ELSE NotFound

\* chr(ord('A') + attendance_col_index)
ColumnLetter(col_index) == Letters[col_index + 1]

\* what the sheet service does with the letter of an A1 range
ColumnOfLetter(letter) == CHOOSE i \in 1..Len(Letters) : Letters[i] = letter

\* a row with cell number col (1-based) set, padded with empty cells
SetCell(row, col, value) ==
    [i \in 1..(IF Len(row) > col THEN Len(row) ELSE col) |->
        IF i = col THEN value ELSE IF i <= Len(row) THEN row[i] ELSE ""]

\* values().update(range="<tab>!<letter><row>", body={"values": [[value]]})
WriteCell(sh, letter, row_index, value) ==
    [k \in 1..(IF Len(sh) > row_index THEN Len(sh) ELSE row_index) |->
        IF k = row_index
        THEN SetCell(IF k <= Len(sh) THEN sh[k] ELSE <<>>,
                     ColumnOfLetter(letter), value)
        ELSE IF k <= Len(sh) THEN sh[k] ELSE <<>>]

\* the part of update_google_sheet_mark between the read and the write:
\* the cell to write, or NotFound when the function returns False
\* (empty sheet, missing header column, no row for attendee_id)
TargetCell(rows, attendee_id) ==
    IF rows = <<>> THEN [row_index |-> NotFound, letter |-> "A"]
    ELSE LET header == rows[1]
             data_rows == SubSeq(rows, 2, Len(rows))
             id_col_index == HeaderIndex(header, "Attendee ID")
             attendance_col_index == HeaderIndex(header, "Attendance")
         IN  IF id_col_index = NotFound \/ attendance_col_index = NotFound
             THEN [row_index |-> NotFound, letter |-> "A"]
             ELSE [row_index |->
                       FindRowIndex(data_rows, id_col_index, attendee_id),
                   letter |-> ColumnLetter(attendance_col_index)]

\* the sheets the service may be pointed at (as values().get returns them:
\* trailing empty cells are not returned)
SheetChoices ==
    { << <<"Attendee ID", "Name", "Attendance">>,
         <<"a1", "Ann">>, <<"a2", "Bob">>, <<"a1", "Ann">> >>,
      << <<"Attendance", "Attendee ID">>,
         <<>>, <<"", "zz">>, <<"", "a1">> >>,
      << <<"Attendee ID", "Name">>, <<"a1", "Ann">>, <<"a2", "Bob">> >>,
      <<>> }

\* ------------------------------------------------------------- requests
NoResp == [status |-> 0, ok |-> FALSE, sheet_updated |-> FALSE,
           message |-> "", ts |-> NoTs]

IdleReq ==
    [pc |-> "idle", attendee_id |-> "a1", scanner_id |-> SCANNER_ID,
     scanner_password |-> SCANNER_PASSWORD, meta |-> NoMeta,
     row_index |-> NotFound, letter |-> "A", sheet_updated |-> FALSE,
     found |-> FALSE, doc |-> NewDoc(""), resp |-> NoResp,
     \* history of the request, read only by the properties
     startStatus |-> "", beganAt |-> 0, storeReads |-> 0, storeWrites |-> 0,
     sheetWrites |-> 0, sheetCalls |-> 0, mirrorRaised |-> FALSE,
     storeRaised |-> FALSE]

\* raise HTTPException(status_code=..., detail=...)
HttpError(code, detail, ts) ==
    [status |-> code, ok |-> FALSE, sheet_updated |-> FALSE,
     message |-> detail, ts |-> ts]

\* return {"ok": ..., "message": ..., "sheet_updated": ...}
Reply(ok, message, sheet_updated) ==
    [status |-> 200, ok |-> ok, sheet_updated |-> sheet_updated,
     message |-> message, ts |-> NoTs]

\* the credential check with "and" for "or"
BadCredentials_and(scanner_id, scanner_password) ==
    scanner_id # SCANNER_ID /\ scanner_password # SCANNER_PASSWORD

\* req.scanner_id != SCANNER_ID or req.scanner_password != SCANNER_PASSWORD
BadCredentials(scanner_id, scanner_password) ==
    scanner_id # SCANNER_ID \/ scanner_password # SCANNER_PASSWORD

\* the exception handler reporting success
SheetExceptReturn_true == TRUE

\* except Exception as e: ... return False
SheetExceptReturn == FALSE

\* the abort left out: the database is updated whatever the sheet said
SheetAbort_never(sheet_updated) == FALSE

\* if not sheet_updated: abort
SheetAbort(sheet_updated) == ~sheet_updated

SheetFailedReply ==
    Reply(FALSE, "Failed to update Google Sheet. Attendance not marked.", FALSE)

UnexpectedReply == Reply(FALSE, "An unexpected error occurred", FALSE)

Init ==
    /\ store = InitStore
    /\ sheetsConfigured \in BOOLEAN
    /\ UPDATE_SHEETS_ON_MARK \in BOOLEAN
    \* the sheet is read only when the mirror is enabled and configured
    /\ sheet \in IF UPDATE_SHEETS_ON_MARK /\ sheetsConfigured
                 THEN SheetChoices ELSE {<<>>}
    /\ clock = 1
    /\ req = [w \in Workers |-> IdleReq]
    /\ getResp = [status |-> 0, body |-> [detail |-> ""]]
    /\ nreq = 0

\* ------------------------------------------------------------- get_attendee
\* attendee_doc_to_dict: the document without _id, with "id" added
attendee_doc_to_dict(doc, attendee_id) ==
    [name |-> doc.name, attendance_status |-> doc.attendance_status,
     attendance_ts |-> doc.attendance_ts,
     attendance_meta |-> doc.attendance_meta,
     attendee_id |-> attendee_id, id |-> attendee_id]

get_attendee(attendee_id) ==
    /\ nreq < MaxRequests
    /\ nreq' = nreq + 1
    /\ getResp' =
          IF HasDoc(store, attendee_id)
          THEN [status |-> 200,
                body |-> attendee_doc_to_dict(store[attendee_id], attendee_id)]
          ELSE [status |-> 404, body |-> [detail |-> "Attendee not found"]]
    /\ UNCHANGED <<store, sheet, sheetsConfigured, UPDATE_SHEETS_ON_MARK,
                   clock, req>>

\* ------------------------------------------------------------- mark_attendance
Finish(r, resp) == [r EXCEPT !.pc = "done", !.resp = resp]

\* the request arrives; the credential check is the first statement
Begin(w, attendee_id, scanner_id, scanner_password, meta) ==
    /\ req[w].pc \in {"idle", "done"}
    /\ nreq < MaxRequests
    /\ nreq' = nreq + 1
    /\ LET r == [IdleReq EXCEPT
                    !.attendee_id = attendee_id,
                    !.scanner_id = scanner_id,
                    !.scanner_password = scanner_password,
                    !.meta = meta,
                    !.beganAt = clock,
                    !.startStatus =
                        IF HasDoc(store, attendee_id)
                        THEN store[attendee_id].attendance_status
                        ELSE "absent"]
       IN  req' = [req EXCEPT ![w] =
                IF BadCredentials(scanner_id, scanner_password)
                THEN Finish(r, HttpError(401, "Invalid scanner credentials",
                                         NoTs))
                ELSE [r EXCEPT !.pc = "find"]]
    /\ UNCHANGED <<store, sheet, sheetsConfigured, UPDATE_SHEETS_ON_MARK,
                   clock, getResp>>

\* doc = collection.find_one(...), the existence check and the barrier
FindOne(w) ==
    /\ req[w].pc = "find"
    /\ LET id == req[w].attendee_id
           r == [req[w] EXCEPT
                    !.storeReads = @ + 1,
                    !.found = HasDoc(store, id),
                    !.doc = IF HasDoc(store, id) THEN store[id] ELSE @]
       IN  req' = [req EXCEPT ![w] =
                IF DocMissing(r.found)
                THEN Finish(r, HttpError(404, "Attendee not found", NoTs))
                ELSE IF AlreadyMarked(r.doc)
                THEN Finish(r, HttpError(409, "Ticket already used. Marked at",
                                         r.doc.attendance_ts))
                ELSE IF ~UPDATE_SHEETS_ON_MARK
                THEN [r EXCEPT !.pc = "update_direct"]
                ELSE [r EXCEPT !.pc = "sheet_get"]]
    /\ UNCHANGED <<store, sheet, sheetsConfigured, UPDATE_SHEETS_ON_MARK,
                   clock, getResp, nreq>>

\* Case 1: sheet updates are disabled, update the database directly
UpdateDirect(w) ==
    /\ req[w].pc = "update_direct"
    /\ LET r == req[w]
       IN  /\ store' = UpdateOne(store, r.attendee_id,
                                 BuildUpdate(clock, r.meta))
           /\ req' = [req EXCEPT ![w] =
                  Finish([r EXCEPT !.storeWrites = @ + 1],
                         Reply(TRUE, "Attendance marked in Database", FALSE))]
    /\ clock' = clock + 1
    /\ UNCHANGED <<sheet, sheetsConfigured, UPDATE_SHEETS_ON_MARK, getResp,
                   nreq>>

\* the database update moved before the test of sheet_updated
AfterSheet_proceed(r, sheet_updated) ==
    [r EXCEPT !.pc = "db_update", !.sheet_updated = sheet_updated]

\* a failed sheet update tried again instead of aborting
AfterSheet_retry(r, sheet_updated) ==
    IF SheetAbort(sheet_updated)
    THEN [r EXCEPT !.pc = "sheet_get"]
    ELSE [r EXCEPT !.pc = "db_update", !.sheet_updated = sheet_updated]

\* mark_attendance after update_google_sheet_mark has returned sheet_updated
AfterSheet(r, sheet_updated) ==
    IF SheetAbort(sheet_updated)
    THEN Finish(r, SheetFailedReply)
    ELSE [r EXCEPT !.pc = "db_update", !.sheet_updated = sheet_updated]

\* update_google_sheet_mark up to and including the read of the sheet
SheetGet(w) ==
    /\ req[w].pc = "sheet_get"
    /\ LET r == [req[w] EXCEPT !.sheetCalls = @ + 1]
           cell == TargetCell(sheet, r.attendee_id)
       IN  req' = [req EXCEPT ![w] =
                IF ~sheetsConfigured
                THEN AfterSheet(r, FALSE)
                ELSE IF cell.row_index = NotFound
                THEN AfterSheet(r, FALSE)
                ELSE [r EXCEPT !.pc = "sheet_update",
                               !.row_index = cell.row_index,
                               !.letter = cell.letter]]
    /\ UNCHANGED <<store, sheet, sheetsConfigured, UPDATE_SHEETS_ON_MARK,
                   clock, getResp, nreq>>

\* the read of the sheet raises: except Exception -> return False
SheetGetRaises(w) ==
    /\ req[w].pc = "sheet_get"
    /\ sheetsConfigured
    /\ req' = [req EXCEPT ![w] =
           AfterSheet([req[w] EXCEPT !.sheetCalls = @ + 1,
                                     !.mirrorRaised = TRUE],
                      SheetExceptReturn)]
    /\ UNCHANGED <<store, sheet, sheetsConfigured, UPDATE_SHEETS_ON_MARK,
                   clock, getResp, nreq>>

\* the cell update of update_google_sheet_mark, then return True
SheetUpdate(w) ==
    /\ req[w].pc = "sheet_update"
    /\ LET r == req[w]
       IN  /\ sheet' = WriteCell(sheet, r.letter, r.row_index, "Attended")
           /\ req' = [req EXCEPT ![w] =
                  AfterSheet([r EXCEPT !.sheetWrites = @ + 1], TRUE)]
    /\ UNCHANGED <<store, sheetsConfigured, UPDATE_SHEETS_ON_MARK, clock,
                   getResp, nreq>>

\* the cell update raises, with the cell written or not:
\* except Exception -> return False
SheetUpdateRaises(w) ==
    /\ req[w].pc = "sheet_update"
    /\ \E applied \in BOOLEAN :
         LET r == req[w]
         IN  /\ sheet' = IF applied
                         THEN WriteCell(sheet, r.letter, r.row_index,
                                        "Attended")
                         ELSE sheet
             /\ req' = [req EXCEPT ![w] =
                    AfterSheet([r EXCEPT !.mirrorRaised = TRUE,
                                         !.sheetWrites =
                                             IF applied THEN @ + 1 ELSE @],
                               SheetExceptReturn)]
    /\ UNCHANGED <<store, sheetsConfigured, UPDATE_SHEETS_ON_MARK, clock,
                   getResp, nreq>>

\* Case 2 after the sheet was marked: now update the database
DbUpdate(w) ==
    /\ req[w].pc = "db_update"
    /\ LET r == req[w]
       IN  /\ store' = UpdateOne(store, r.attendee_id,
                                 BuildUpdate(clock, r.meta))
           /\ req' = [req EXCEPT ![w] =
                  Finish([r EXCEPT !.storeWrites = @ + 1],
                         Reply(TRUE, "Attendance marked successfully in Sheet and Database.",
                               TRUE))]
    /\ clock' = clock + 1
    /\ UNCHANGED <<sheet, sheetsConfigured, UPDATE_SHEETS_ON_MARK, getResp,
                   nreq>>

\* ------------------------------------------------------------- store failures
\* an exception of the framework's default handling: 500
ServerError == HttpError(500, "Internal Server Error", NoTs)

\* find_one raises: it is outside every try block
FindOneRaises(w) ==
    /\ req[w].pc = "find"
    /\ req' = [req EXCEPT ![w] =
           Finish([req[w] EXCEPT !.storeRaised = TRUE,
                                 !.storeReads = @ + 1], ServerError)]
    /\ UNCHANGED <<store, sheet, sheetsConfigured, UPDATE_SHEETS_ON_MARK,
                   clock, getResp, nreq>>

\* update_one of Case 1 raises (applied by the server or not): outside
\* every try block
UpdateDirectRaises(w) ==
    /\ req[w].pc = "update_direct"
    /\ \E applied \in BOOLEAN :
         LET r == req[w]
         IN  /\ store' = IF applied
                         THEN UpdateOne(store, r.attendee_id,
                                        BuildUpdate(clock, r.meta))
                         ELSE store
             /\ req' = [req EXCEPT ![w] =
                    Finish([r EXCEPT !.storeRaised = TRUE,
                                     !.storeWrites =
                                         IF applied THEN @ + 1 ELSE @],
                           ServerError)]
    /\ clock' = clock + 1
    /\ UNCHANGED <<sheet, sheetsConfigured, UPDATE_SHEETS_ON_MARK, getResp,
                   nreq>>

\* update_one of Case 2 raises (applied by the server or not): caught by
\* the except Exception of mark_attendance
DbUpdateRaises(w) ==
    /\ req[w].pc = "db_update"
    /\ \E applied \in BOOLEAN :
         LET r == req[w]
         IN  /\ store' = IF applied
                         THEN UpdateOne(store, r.attendee_id,
                                        BuildUpdate(clock, r.meta))
                         ELSE store
             /\ req' = [req EXCEPT ![w] =
                    Finish([r EXCEPT !.storeRaised = TRUE,
                                     !.storeWrites =
                                         IF applied THEN @ + 1 ELSE @],
                           UnexpectedReply)]
    /\ clock' = clock + 1
    /\ UNCHANGED <<sheet, sheetsConfigured, UPDATE_SHEETS_ON_MARK, getResp,
                   nreq>>

\* find_one of get_attendee raises
get_attendee_raises ==
    /\ nreq < MaxRequests
    /\ nreq' = nreq + 1
    /\ getResp' = [status |-> 500, body |-> [detail |-> "Internal Server Error"]]
    /\ UNCHANGED <<store, sheet, sheetsConfigured, UPDATE_SHEETS_ON_MARK,
                   clock, req>>

\* ------------------------------------------------------------- specifications
Next ==
    \/ \E a \in AttendeeIds : get_attendee(a)
    \/ \E w \in Workers, a \in AttendeeIds, i \in ScannerIds,
          p \in ScannerPasswords, m \in Metas : Begin(w, a, i, p, m)
    \/ \E w \in Workers : FindOne(w)
    \/ \E w \in Workers : UpdateDirect(w)
    \/ \E w \in Workers : SheetGet(w)
    \/ \E w \in Workers : SheetGetRaises(w)
    \/ \E w \in Workers : SheetUpdate(w)
    \/ \E w \in Workers : SheetUpdateRaises(w)
    \/ \E w \in Workers : DbUpdate(w)

\* the store's calls return
Spec == Init /\ [][Next]_vars

StoreFault ==
    \/ \E w \in Workers : FindOneRaises(w)
    \/ \E w \in Workers : UpdateDirectRaises(w)
    \/ \E w \in Workers : DbUpdateRaises(w)
    \/ get_attendee_raises

NextStoreFault == Next \/ StoreFault

\* the store's calls return or raise
SpecStoreFault == Init /\ [][NextStoreFault]_vars

\* the remote call worker w's request is waiting for returns or raises
MarkStep(w) ==
    \/ FindOne(w) \/ FindOneRaises(w)
    \/ UpdateDirect(w) \/ UpdateDirectRaises(w)
    \/ SheetGet(w) \/ SheetGetRaises(w)
    \/ SheetUpdate(w) \/ SheetUpdateRaises(w)
    \/ DbUpdate(w) \/ DbUpdateRaises(w)

\* mark_attendance requests alone, with the inputs its control flow reads:
\* the attendee id and the credentials (the meta is only stored)
NextFair ==
    \/ \E w \in Workers, a \in AttendeeIds, p \in ScannerPasswords :
          Begin(w, a, SCANNER_ID, p, NoMeta)
    \/ \E w \in Workers : MarkStep(w)

\* the two endpoints with valid credentials and every meta
NextCommit ==
    \/ \E a \in AttendeeIds : get_attendee(a)
    \/ get_attendee_raises
    \/ \E w \in Workers, a \in AttendeeIds, m \in MoreMetas :
          Begin(w, a, SCANNER_ID, SCANNER_PASSWORD, m)
    \/ \E w \in Workers : MarkStep(w)

SpecCommit == Init /\ [][NextCommit]_vars

\* the server runs every handler it has started, and each awaited remote
\* call comes back with a result or an exception
SpecFair ==
    Init /\ [][NextFair]_vars /\ \A w \in Workers : WF_vars(MarkStep(w))

\* ------------------------------------------------- update_google_sheet_mark
\* update_google_sheet_mark called on its own, on any sheet the service may
\* return: a header row and data rows, without trailing empty cells or rows
SeqsUpTo(S, n) == UNION {[1..k -> S] : k \in 0..n}

Trimmed(row) == row = <<>> \/ row[Len(row)] # ""

SheetHeaders == SeqsUpTo({"Attendee ID", "Attendance", "Name"}, MaxCols)

SheetRows == {r \in SeqsUpTo({"a1", ""}, MaxCols) : Trimmed(r)}

DrawnSheets ==
    {<<>>} \cup
    {<<h>> \o d : h \in SheetHeaders,
                  d \in {e \in SeqsUpTo(SheetRows, MaxRows) :
                            e # <<>> /\ e[Len(e)] # <<>>}} \cup
    {<<h>> : h \in SheetHeaders \ {<<>>}}

InitSheetMark ==
    /\ store = InitStore
    /\ sheetsConfigured = TRUE
    /\ UPDATE_SHEETS_ON_MARK = TRUE
    /\ sheet \in DrawnSheets
    /\ clock = 1
    /\ req = [w \in Workers |-> IdleReq]
    /\ getResp = [status |-> 0, body |-> [detail |-> ""]]
    /\ nreq = 0

\* update_google_sheet_mark(attendee_id, mark_value="Attended") is entered
CallSheetMark(w, attendee_id) ==
    /\ req[w].pc \in {"idle", "done", "db_update"}
    /\ req' = [req EXCEPT ![w] =
           [IdleReq EXCEPT !.pc = "sheet_get", !.attendee_id = attendee_id]]
    /\ UNCHANGED <<store, sheet, sheetsConfigured, UPDATE_SHEETS_ON_MARK,
                   clock, getResp, nreq>>

NextSheetMark ==
    \/ \E a \in AttendeeIds : CallSheetMark("w1", a)
    \/ SheetGet("w1")
    \/ SheetUpdate("w1")

SpecSheetMark == InitSheetMark /\ [][NextSheetMark]_vars

\* ------------------------------------------------------------- properties
Done(w) == req[w].pc = "done"

\* the request carries the configured credential
Valid(r) == r.scanner_id = SCANNER_ID /\ r.scanner_password = SCANNER_PASSWORD

\* the request ended in the "sheet failed / unexpected error" reply
MirrorFailed(r) == r.resp.status = 200 /\ ~r.resp.ok

\* the sheet as a reader of it sees it: the header names a column, a data
\* row carries the identifier, the row of the identifier is marked
HeaderHas(sh, name) == sh # <<>> /\ \E c \in 1..Len(sh[1]) : sh[1][c] = name

IdPresent(sh, id) ==
    /\ sh # <<>>
    /\ \E k \in 2..Len(sh), c \in 1..Len(sh[1]) :
          sh[1][c] = "Attendee ID" /\ Len(sh[k]) >= c /\ sh[k][c] = id

MirrorMarked(sh, id) ==
    /\ sh # <<>>
    /\ \E k \in 2..Len(sh), c, d \in 1..Len(sh[1]) :
          /\ sh[1][c] = "Attendee ID" /\ Len(sh[k]) >= c /\ sh[k][c] = id
          /\ \A j \in 2..(k - 1) : ~(Len(sh[j]) >= c /\ sh[j][c] = id)
          /\ sh[1][d] = "Attendance" /\ Len(sh[k]) >= d
          /\ sh[k][d] = "Attended"

MirrorCannotMark(id) ==
    \/ ~sheetsConfigured
    \/ sheet = <<>>
    \/ ~HeaderHas(sheet, "Attendee ID")
    \/ ~HeaderHas(sheet, "Attendance")
    \/ ~IdPresent(sheet, id)

\* C1: two concurrent mark_attendance requests with valid credentials on the
\* same existing, unmarked attendee (neither refused by the mirror): exactly
\* one gets ok=true and the other gets 409.
C1_ExactlyOneSucceeds ==
    \A w1, w2 \in Workers :
        ( /\ w1 # w2
          /\ Done(w1) /\ Done(w2)
          /\ Valid(req[w1]) /\ Valid(req[w2])
          /\ req[w1].attendee_id = req[w2].attendee_id
          /\ req[w1].startStatus = "NotAttended"
          /\ req[w2].startStatus = "NotAttended"
          /\ ~MirrorFailed(req[w1]) /\ ~MirrorFailed(req[w2]) )
        => \/ req[w1].resp.ok /\ req[w2].resp.status = 409
           \/ req[w2].resp.ok /\ req[w1].resp.status = 409

\* a request with valid credentials that began on an Attended document has
\* ended with 409 and has written nothing
C2_RejectedNoWrite ==
    \A w \in Workers :
        (Done(w) /\ Valid(req[w]) /\ req[w].startStatus = "Attended")
        => /\ req[w].resp.status = 409
           /\ req[w].storeWrites = 0
           /\ req[w].sheetCalls = 0
           /\ req[w].sheetWrites = 0

\* the step in which find_one returns an Attended document
C2_RejectStep ==
    \A w \in Workers :
        ( /\ req[w].pc = "find" /\ req'[w].pc # "find"
          /\ req[w].attendee_id \in DOMAIN store
          /\ store[req[w].attendee_id].attendance_status = "Attended" )
        => /\ req'[w].pc = "done"
           /\ req'[w].resp.status = 409
           /\ req'[w].resp.ts = store[req[w].attendee_id].attendance_ts
           /\ req'[w].resp.ts # NoTs
           /\ store' = store
           /\ sheet' = sheet

\* C2: a mark_attendance request with valid credentials that begins while the
\* attendee is stored as Attended ends with 409 and writes neither the store
\* nor the mirror; the 409 carries the attendance_ts stored when it is
\* raised, and the step that raises it changes neither store nor sheet.
C2_AlreadyMarkedRejected == []C2_RejectedNoWrite /\ [][C2_RejectStep]_vars

C2_Witness ==
    \E w \in Workers :
        /\ Done(w) /\ Valid(req[w]) /\ req[w].startStatus = "Attended"
        /\ req[w].resp.status = 409
        /\ req[w].meta = "m1"
        /\ store[req[w].attendee_id].attendance_meta # "m1"
        /\ req[w].resp.ts = store[req[w].attendee_id].attendance_ts

\* C3: with the mirror enabled, a request has written the store only if its
\* call of update_google_sheet_mark had returned True before, after writing
\* the cell without an exception.
C3_StoreAfterMirror ==
    \A w \in Workers :
        (UPDATE_SHEETS_ON_MARK /\ req[w].storeWrites > 0)
        => /\ req[w].sheet_updated
           /\ req[w].sheetWrites > 0
           /\ ~req[w].mirrorRaised

C3_Witness ==
    \E w \in Workers :
        /\ UPDATE_SHEETS_ON_MARK
        /\ req[w].storeWrites > 0
        /\ req[w].sheet_updated
        /\ store[req[w].attendee_id].attendance_status = "Attended"

\* C4: with the mirror enabled, a request with valid credentials that calls
\* the mirror while the mirror cannot mark the attendee (unconfigured, empty
\* sheet, missing header column, identifier absent from the rows) ends with
\* status 200, ok=false, sheet_updated=false, and writes neither store nor
\* sheet; the stored document stays as it was created.
C4_MirrorFailureAborts ==
    \A w \in Workers :
        ( /\ UPDATE_SHEETS_ON_MARK
          /\ Valid(req[w])
          /\ req[w].sheetCalls > 0
          /\ MirrorCannotMark(req[w].attendee_id) )
        => /\ Done(w)
           /\ req[w].resp.status = 200
           /\ ~req[w].resp.ok
           /\ ~req[w].resp.sheet_updated
           /\ req[w].storeWrites = 0
           /\ req[w].sheetWrites = 0
           /\ store[req[w].attendee_id] = InitStore[req[w].attendee_id]

C4_Witness ==
    \E w \in Workers :
        /\ UPDATE_SHEETS_ON_MARK /\ Valid(req[w]) /\ req[w].sheetCalls > 0
        /\ sheetsConfigured
        /\ HeaderHas(sheet, "Attendee ID") /\ HeaderHas(sheet, "Attendance")
        /\ ~IdPresent(sheet, req[w].attendee_id)
        /\ Done(w) /\ ~req[w].resp.ok

\* C5: with the mirror disabled, a request with valid credentials whose
\* find_one returned an unmarked document ends with status 200, ok=true,
\* sheet_updated=false, the document Attended with a timestamp generated
\* during the request; the mirror is never called.
C5_DirectUpdate ==
    ~UPDATE_SHEETS_ON_MARK =>
        \A w \in Workers :
            /\ req[w].sheetCalls = 0 /\ req[w].sheetWrites = 0
            /\ ( /\ Done(w) /\ Valid(req[w]) /\ req[w].found
                 /\ req[w].doc.attendance_status # "Attended" )
               => /\ req[w].resp.status = 200
                  /\ req[w].resp.ok
                  /\ ~req[w].resp.sheet_updated
                  /\ store[req[w].attendee_id].attendance_status = "Attended"
                  /\ store[req[w].attendee_id].attendance_ts >= req[w].beganAt
                  /\ store[req[w].attendee_id].attendance_ts # NoTs

C5_Witness ==
    \E w \in Workers :
        /\ ~UPDATE_SHEETS_ON_MARK /\ ~sheetsConfigured
        /\ Done(w) /\ Valid(req[w]) /\ req[w].found
        /\ req[w].doc.attendance_status = "NotAttended"
        /\ req[w].resp.ok
        /\ store[req[w].attendee_id].attendance_status = "Attended"

\* C6: a request whose scanner_id or scanner_password differs from the
\* configured credential ends at once with 401: no store read, no store
\* write, no mirror call, whatever the state of the attendee.
C6_Unauthorized ==
    \A w \in Workers :
        ( /\ req[w].pc # "idle"
          /\ \/ req[w].scanner_id # SCANNER_ID
             \/ req[w].scanner_password # SCANNER_PASSWORD )
        => /\ Done(w)
           /\ req[w].resp.status = 401
           /\ req[w].storeReads = 0
           /\ req[w].storeWrites = 0
           /\ req[w].sheetCalls = 0
           /\ req[w].sheetWrites = 0

C6_Witness ==
    \E w \in Workers :
        /\ Done(w)
        /\ req[w].scanner_id = SCANNER_ID
        /\ req[w].scanner_password # SCANNER_PASSWORD
        /\ req[w].startStatus = "Attended"
        /\ req[w].resp.status = 401

\* one step keeps every Attended document Attended
C7_StaysAttended ==
    \A a \in StoredIds :
        store[a].attendance_status = "Attended"
        => store'[a].attendance_status = "Attended"

\* C7: a document whose attendance_status is Attended is still Attended
\* after every step of every request (get_attendee, mark_attendance, in any
\* interleaving).
C7_NeverUnmarked == [][C7_StaysAttended]_vars

C7_Witness ==
    \E w \in Workers :
        /\ Done(w) /\ req[w].storeWrites > 0
        /\ store[req[w].attendee_id].attendance_status = "Attended"
        /\ store[req[w].attendee_id].attendance_ts
               # req[w].doc.attendance_ts
        /\ req[w].doc.attendance_status # "Attended"
        /\ \E v \in Workers : v # w /\ req[v].storeWrites > 0
                              /\ req[v].attendee_id = req[w].attendee_id

\* C8: with the mirror enabled and every record created unmarked, a document
\* that is Attended in the store has its mirror row marked Attended.
C8_StoreImpliesMirror ==
    UPDATE_SHEETS_ON_MARK =>
        \A a \in StoredIds :
            store[a].attendance_status = "Attended" => MirrorMarked(sheet, a)

C8_Witness ==
    /\ UPDATE_SHEETS_ON_MARK
    /\ \E a \in StoredIds :
          store[a].attendance_status = "Attended" /\ MirrorMarked(sheet, a)

\* C9: every store or mirror exception raised during a mark_attendance
\* request ends in the ok=false reply with status 200; a request ends with
\* status 200, 401, 404 or 409 only.
C9_ExceptionsConverted ==
    \A w \in Workers :
        Done(w) =>
            /\ req[w].resp.status \in {200, 401, 404, 409}
            /\ (req[w].storeRaised \/ req[w].mirrorRaised)
               => (req[w].resp.status = 200 /\ ~req[w].resp.ok)

\* C10: a request in which the sheet read or the sheet cell update raised
\* ends with status 200, ok=false, sheet_updated=false:
\* update_google_sheet_mark returned False, and the store is not written.
C10_MirrorErrorIsFailure ==
    \A w \in Workers :
        req[w].mirrorRaised
        => /\ Done(w)
           /\ req[w].resp.status = 200
           /\ ~req[w].resp.ok
           /\ ~req[w].resp.sheet_updated
           /\ ~req[w].sheet_updated
           /\ req[w].storeWrites = 0

C10_Witness ==
    \E w \in Workers :
        /\ req[w].mirrorRaised /\ Done(w)
        /\ req[w].sheetWrites > 0
        /\ MirrorMarked(sheet, req[w].attendee_id)
        /\ store[req[w].attendee_id].attendance_status = "NotAttended"

\* C11: a mark_attendance request with valid credentials for an identifier
\* that has no document ends with 404; it writes neither the store nor the
\* mirror and never calls the mirror, also when the mirror is enabled and has
\* a row for the identifier; the collection holds the same identifiers as
\* at the start.
C11_UnknownAttendee ==
    /\ DOMAIN store = StoredIds
    /\ \A w \in Workers :
          ( /\ req[w].pc # "idle" /\ Valid(req[w])
            /\ req[w].attendee_id \notin StoredIds )
          => /\ req[w].pc \in {"find", "done"}
             /\ Done(w) => req[w].resp.status = 404
             /\ req[w].storeWrites = 0
             /\ req[w].sheetCalls = 0
             /\ req[w].sheetWrites = 0

C11_Witness ==
    \E w \in Workers :
        /\ Done(w) /\ Valid(req[w])
        /\ req[w].attendee_id \notin StoredIds
        /\ req[w].resp.status = 404
        /\ UPDATE_SHEETS_ON_MARK /\ sheetsConfigured
        /\ IdPresent(sheet, req[w].attendee_id)
        /\ ~MirrorMarked(sheet, req[w].attendee_id)

\* C12: every stored document has an attendance_ts if and only if its
\* attendance_status is Attended.
C12_TsIffAttended ==
    \A a \in StoredIds :
        (store[a].attendance_ts # NoTs)
            <=> (store[a].attendance_status = "Attended")

C12_Witness ==
    \E a, b \in StoredIds :
        /\ store[a].attendance_status = "Attended"
        /\ store[a].attendance_ts # NoTs
        /\ store[b].attendance_status = "NotAttended"
        /\ store[b].attendance_ts = NoTs
        /\ \E w \in Workers : Done(w) /\ req[w].attendee_id = b
                              /\ Valid(req[w]) /\ ~req[w].resp.ok

\* one step leaves every attendance_ts that is set as it is
C13_TsKept ==
    \A a \in StoredIds :
        store[a].attendance_ts # NoTs
        => store'[a].attendance_ts = store[a].attendance_ts

\* C13: a document goes from NotAttended to Attended at most once: once its
\* attendance_ts is set, no later store write overwrites it, under any
\* interleaving of mark_attendance requests.
C13_MarkedOnce == [][C13_TsKept]_vars

\* the step in which worker w commits: its update_one is applied
C14_Commits(w) ==
    /\ req[w].pc \in {"update_direct", "db_update"}
    /\ req'[w].storeWrites = req[w].storeWrites + 1

\* what a commit of worker w may change
C14_FrameOf(w) ==
    LET id == req[w].attendee_id
        m == req[w].meta
    IN  /\ id \in DOMAIN store
        /\ DOMAIN store' = DOMAIN store
        /\ \A a \in DOMAIN store \ {id} : store'[a] = store[a]
        /\ DOMAIN store'[id] = DOMAIN store[id]
        /\ store'[id].name = store[id].name
        /\ store'[id].attendance_status = "Attended"
        /\ store'[id].attendance_ts = clock
        /\ store'[id].attendance_meta =
               IF m = NoMeta \/ m = EmptyMeta
               THEN store[id].attendance_meta
               ELSE m

C14_Step ==
    /\ \A w \in Workers : C14_Commits(w) => C14_FrameOf(w)
    /\ store' # store => \E w \in Workers : C14_Commits(w)

\* C14: a commit of mark_attendance changes, in the document of the requested
\* attendee_id only, attendance_status, attendance_ts and, when a non-empty
\* meta is supplied, attendance_meta, which becomes the supplied meta; without
\* a meta (None or empty) attendance_meta keeps its value; every other field
\* and every other document is unchanged, and nothing else writes the store.
C14_CommitFrame == [][C14_Step]_vars

C14_Witness ==
    \E w, v \in Workers :
        /\ w # v /\ Done(w) /\ Done(v)
        /\ req[w].attendee_id = req[v].attendee_id
        /\ req[w].resp.ok /\ req[v].resp.ok
        /\ req[w].meta = "m1" /\ req[v].meta = "m2"
        /\ store[req[w].attendee_id].attendance_meta = "m2"
        /\ store[req[w].attendee_id].name = "Ann"

C14_WitnessKept ==
    \E w, v \in Workers :
        /\ w # v /\ Done(w) /\ Done(v)
        /\ req[w].attendee_id = req[v].attendee_id
        /\ req[w].resp.ok /\ req[v].resp.ok
        /\ req[w].meta = "m1" /\ req[v].meta = EmptyMeta
        /\ store[req[w].attendee_id].attendance_ts > req[w].beganAt
        /\ store[req[w].attendee_id].attendance_meta = "m1"

\* the cell at row k, column c of a sheet; cells not returned are empty
CellAt(sh, k, c) ==
    IF k \in 1..Len(sh) /\ c \in 1..Len(sh[k]) THEN sh[k][c] ELSE ""

\* the first column whose header is name (1-based)
ColumnNamed(sh, name) ==
    CHOOSE c \in 1..Len(sh[1]) :
        sh[1][c] = name /\ \A b \in 1..(c - 1) : sh[1][b] # name

\* the first data row (sheet row number) with id in the "Attendee ID" column
FirstRowOf(sh, id) ==
    LET c == ColumnNamed(sh, "Attendee ID")
    IN  CHOOSE k \in 2..Len(sh) :
            /\ CellAt(sh, k, c) = id
            /\ \A j \in 2..(k - 1) : CellAt(sh, j, c) # id

\* both columns are named in the header and a data row has id in the (first)
\* column named "Attendee ID"
CanMark(sh, id) ==
    /\ HeaderHas(sh, "Attendee ID")
    /\ HeaderHas(sh, "Attendance")
    /\ \E k \in 2..Len(sh) : CellAt(sh, k, ColumnNamed(sh, "Attendee ID")) = id

\* worker w's call of update_google_sheet_mark: the read step, the write step
C15_CallOf(w) ==
    LET id == req[w].attendee_id
    IN  /\ ( /\ req[w].pc = "sheet_get" /\ req'[w].pc # "sheet_get"
             /\ sheetsConfigured /\ ~req'[w].mirrorRaised )
           => /\ sheet' = sheet
              /\ IF CanMark(sheet, id)
                 THEN req'[w].pc = "sheet_update"
                 ELSE /\ req'[w].pc = "done"
                      /\ ~req'[w].sheet_updated
                      /\ req'[w].resp.status = 200
                      /\ ~req'[w].resp.sheet_updated
        /\ ( /\ req[w].pc = "sheet_update" /\ req'[w].pc # "sheet_update"
             /\ ~req'[w].mirrorRaised )
           => /\ CanMark(sheet, id)
              /\ req'[w].sheet_updated
              /\ \A k \in 1..(Len(sheet) + 1), c \in 1..Len(Letters) :
                    CellAt(sheet', k, c) =
                        IF /\ k = FirstRowOf(sheet, id)
                           /\ c = ColumnNamed(sheet, "Attendance")
                        THEN "Attended"
                        ELSE CellAt(sheet, k, c)
              /\ Len(sheet') = Len(sheet)

C15_Step ==
    /\ \A w \in Workers : C15_CallOf(w)
    /\ sheet' # sheet => \E w \in Workers : req[w].pc = "sheet_update"

\* C15: update_google_sheet_mark, its calls of the sheet service returning:
\* when the header has "Attendee ID" and "Attendance" and a data row has
\* attendee_id in the "Attendee ID" column, it writes "Attended" to exactly
\* one cell, the "Attendance" column (found by header name) of the first such
\* row, leaves every other cell as it was and returns True; otherwise it
\* writes nothing and returns False without raising.
C15_SheetMark == [][C15_Step]_vars

\* two rows carry the identifier, the Attendance column lies beyond the
\* cells the rows had: the first row is marked, the second is not
C15_Witness ==
    \E w \in Workers :
        /\ req[w].sheet_updated /\ req[w].sheetWrites > 0
        /\ req[w].attendee_id = "a1"
        /\ sheet = << <<"Attendee ID", "Attendance">>,
                      <<"a1", "Attended">>, <<"a1">> >>

\* how far a request is: every statement of mark_attendance lies after the
\* ones of smaller rank
C16_Rank(pc) ==
    CASE pc = "idle" -> 0
      [] pc = "find" -> 1
      [] pc = "update_direct" -> 2
      [] pc = "sheet_get" -> 2
      [] pc = "sheet_update" -> 3
      [] pc = "db_update" -> 4
      [] pc = "done" -> 5

\* a request has called the mirror at most once, written a cell at most once
\* and the store at most once; unfinished, its next call can return;
\* finished, it has one response
C16_Bounded ==
    \A w \in Workers :
        /\ req[w].sheetCalls <= 1
        /\ req[w].sheetWrites <= 1
        /\ req[w].storeWrites <= 1
        /\ req[w].pc \notin {"idle", "done"} => ENABLED MarkStep(w)
        /\ Done(w) <=> req[w].resp.status \in {200, 401, 404, 409, 500}
        /\ (req[w].sheetCalls = 1 /\ ~req[w].sheet_updated)
           => req[w].pc \in {"sheet_update", "done"}

\* a step of a request moves it forward; its response is set once
C16_Forward ==
    \A w \in Workers :
        (nreq' = nreq /\ req'[w] # req[w])
        => /\ C16_Rank(req'[w].pc) > C16_Rank(req[w].pc)
           /\ ~Done(w)

\* C16: every mark_attendance request ends with exactly one outcome after at
\* most one call of the mirror, one cell write and one store update: each
\* step moves the request forward (no statement is repeated, a failed mirror
\* call is not retried), an unfinished request can always take its next
\* step, and a finished one keeps its response.
C16_OneAttempt ==
    /\ []C16_Bounded
    /\ [][C16_Forward]_vars
    /\ \A w \in Workers : (req[w].pc \notin {"idle", "done"}) ~> Done(w)

C16_Witness ==
    \E w \in Workers :
        /\ Done(w) /\ Valid(req[w])
        /\ req[w].sheetCalls = 1 /\ req[w].mirrorRaised
        /\ req[w].sheetWrites = 0 /\ req[w].storeWrites = 0
        /\ req[w].resp = SheetFailedReply
        /\ CanMark(sheet, req[w].attendee_id)
        /\ nreq = 1

\* C17: the sheet_updated flag of a mark_attendance reply is true if and
\* only if the request wrote the attendee's cell in the mirror, also when the
\* update_one that follows the cell write raises (stated for the requests
\* whose sheet calls all returned).
C17_FlagAccurate ==
    \A w \in Workers :
        (Done(w) /\ req[w].resp.status = 200 /\ ~req[w].mirrorRaised)
        => (req[w].resp.sheet_updated <=> req[w].sheetWrites > 0)

\* C18: the ok flag of a mark_attendance response is true if and only if the
\* request performed the store update, and a response with ok=false or with
\* status 401, 404 or 409 belongs to a request that left the store as it was.
C18_OkMatchesStore ==
    \A w \in Workers :
        (Done(w) /\ req[w].resp.status \in {200, 401, 404, 409})
        => /\ req[w].resp.ok <=> req[w].storeWrites > 0
           /\ req[w].resp.ok
              => store[req[w].attendee_id].attendance_status = "Attended"
           /\ ~req[w].resp.ok => req[w].storeWrites = 0

====
